---- MODULE Spec2Model ----
(***************************************************************************)
(* Matchmaking, session relay and leaderboard of the Tetris server         *)
(* (src/app.py).  The Socket.IO transport is the environment: it calls one *)
(* handler per inbound event and delivers what the handlers emit.          *)
(*                                                                         *)
(* Three specifications share the handlers' definitions:                   *)
(*   Spec      every handler runs to completion before the next starts;    *)
(*   SpecRank  the leaderboard alone, with score lists longer than the     *)
(*             ranking's cut-off;                                          *)
(*   SpecConc  find_match, cancel_match and disconnect run as threads      *)
(*             whose reads and writes of waiting_players interleave.       *)
(***************************************************************************)
EXTENDS Integers, Sequences, FiniteSets, Bags, TLC

\* ------------------------------------------------------------- bounds
MaxClients  == 3        \* connection ids the transport hands out
MaxArrivals == 2        \* entries ever appended to waiting_players
MaxRooms    == 2        \* room ids uuid4 hands out
MaxScores   == 11       \* score entries stored under SpecRank
MaxThreads  == 2        \* handlers in flight at once under SpecConc
MaxGames    == 2        \* score entries stored under SpecGame

\* -------------------------------------------------- program constants
Day  == 1               \* timedelta(days=1), the unit of the clock
Week == 7               \* timedelta(days=7)
TopN == 10              \* the [:10] slice of get_rankings

\* ------------------------------------------------------------- inputs
SIDs       == 1..MaxClients
RoomIds    == 1..MaxRooms
NoRoom     == 0                          \* a room_id that is no key of game_rooms
Broadcast  == 0                          \* addressee of emit(..., broadcast=True)
NoName     == "<missing>"                \* event data without a 'name' key
NoScore    == -1                         \* event data without a 'score' key
Payloads   == {[board |-> b, score |-> 120, lines |-> 0, level |-> 1] :
                 b \in {"b1", "b2"}}
RankScores == {NoScore, 2}               \* scores reported under SpecRank
RankClients == {1}                       \* the client that reports under SpecRank
GameScores == {NoScore, 300}             \* scores reported under SpecGame
GameClients == {1, 2}                    \* the clients that act under SpecGame
ConcClients == {1, 2}                    \* the clients that act under SpecConc
\* the display name a client sends with find_match (the third sends none)
NameOf(c)  == IF c = 3 THEN NoName ELSE IF c % 2 = 1 THEN "Al" ELSE "Bo"
TimePoints == {0, Day, Week}             \* instants the clock visits

VARIABLES
    conn,             \* sid -> "new" | "up" | "down": the transport's connections
    waiting_players,  \* the list waiting_players
    game_rooms,       \* the dict game_rooms: room_id -> room
    uuids,            \* number of room ids uuid4 has returned
    arrivals,         \* history: number of entries appended to waiting_players
    scores,           \* the content of tetris_scores.json
    now,              \* datetime.now()
    emitted,          \* the messages the last handler (or step) emitted, in order
    last,             \* history: the last event handled, its data and, for
                      \* cancel_match and disconnect, what the handler found
    threads           \* SpecConc: the bag of handlers in flight

vars == <<conn, waiting_players, game_rooms, uuids, arrivals, scores, now,
          emitted, last, threads>>

\* ------------------------------------------------------------ helpers
Msg(to, event, data) == [to |-> to, event |-> event, data |-> data]

NoData == [none |-> TRUE]

Range(s) == {s[i] : i \in DOMAIN s}

QueuedSids(q) == {q[i].sid : i \in DOMAIN q}

\* data.get('name', 'Anonymous')
GetName(n) == IF n = NoName THEN "Anonymous" ELSE n

\* data.get('score', 0)
GetScore(s) == IF s = NoScore THEN 0 ELSE s

\* {'sid': request.sid, 'name': player_name}; seq is a history field, set when
\* the entry is appended to waiting_players (its arrival number)
PlayerInfo(sid, n) == [sid |-> sid, name |-> GetName(n), seq |-> 0]

OnlySid(q, sid) == SelectSeq(q, LAMBDA p : p.sid = sid)

DropHead(q, sid) == IF q = <<>> THEN q ELSE Tail(q)

\* [p for p in waiting_players if p['sid'] != request.sid]
WithoutSid(q, sid) == SelectSeq(q, LAMBDA p : p.sid # sid)

PopLast(q) == [item |-> q[Len(q)], rest |-> SubSeq(q, 1, Len(q) - 1)]

\* waiting_players.pop(0): the item returned and the list left
Pop0(q) == [item |-> Head(q), rest |-> Tail(q)]

\* room['player1']['sid'] if room['player2']['sid'] == request.sid else room['player2']['sid']
OpponentSid(room, sid) ==
    IF room.player2.sid = sid THEN room.player1.sid ELSE room.player2.sid

\* request.sid in [room['player1']['sid'], room['player2']['sid']]
IsOccupant(room, sid) == sid \in {room.player1.sid, room.player2.sid}

\* the keys of a dict in insertion order (room ids are numbered as issued)
RECURSIVE KeysInOrder(_)
KeysInOrder(S) ==
    IF S = {} THEN <<>>
    ELSE LET k == CHOOSE x \in S : \A y \in S : x <= y
         IN  <<k>> \o KeysInOrder(S \ {k})

\* ---------------------------------------------------------- leaderboard
\* datetime.isoformat() and datetime.fromisoformat(): an instant and its text
isoformat(t) == <<"iso", t>>
fromisoformat(s) == s[2]

\* load_scores() of a missing file
EmptyScores == [daily |-> <<>>, weekly |-> <<>>]

clean_old_scores_ge(sc, t) ==
    [daily  |-> SelectSeq(sc.daily,
                   LAMBDA s : fromisoformat(s.timestamp) >= t - Day),
     weekly |-> SelectSeq(sc.weekly,
                   LAMBDA s : fromisoformat(s.timestamp) >= t - Week)]

\* clean_old_scores: the two list comprehensions
clean_old_scores(sc, t) ==
    [daily  |-> SelectSeq(sc.daily,
                   LAMBDA s : fromisoformat(s.timestamp) > t - Day),
     weekly |-> SelectSeq(sc.weekly,
                   LAMBDA s : fromisoformat(s.timestamp) > t - Week)]

RECURSIVE InsertFirst(_, _)
InsertFirst(e, s) ==
    IF s = <<>> THEN <<e>>
    ELSE IF Head(s).score > e.score THEN <<Head(s)>> \o InsertFirst(e, Tail(s))
    ELSE <<e>> \o s

\* one step of sorted(..., key=score, reverse=True): e goes after every entry
\* whose score is not lower (the sort is stable)
RECURSIVE InsertDesc(_, _)
InsertDesc(e, s) ==
    IF s = <<>> THEN <<e>>
    ELSE IF Head(s).score >= e.score THEN <<Head(s)>> \o InsertDesc(e, Tail(s))
    ELSE <<e>> \o s

\* sorted(s, key=lambda x: x['score'], reverse=True)
RECURSIVE SortedDesc(_)
SortedDesc(s) ==
    IF s = <<>> THEN <<>>
    ELSE InsertDesc(s[Len(s)], SortedDesc(SubSeq(s, 1, Len(s) - 1)))

\* s[:n]
Slice(s, n) == SubSeq(s, 1, IF Len(s) < n THEN Len(s) ELSE n)

\* get_rankings() on the stored scores sc at instant t
get_rankings(sc, t) ==
    LET cleaned == clean_old_scores(sc, t)
    IN  [daily  |-> Slice(SortedDesc(cleaned.daily), TopN),
         weekly |-> Slice(SortedDesc(cleaned.weekly), TopN)]

\* --------------------------------------------------------------- Init
Init ==
    /\ conn = [c \in SIDs |-> "new"]
    /\ waiting_players = <<>>
    /\ game_rooms = <<>>
    /\ uuids = 0
    /\ arrivals = 0
    /\ scores = EmptyScores
    /\ now = 0
    /\ emitted = <<>>
    /\ last = [op |-> "init", sid |-> 0, data |-> NoData]
    /\ threads = EmptyBag

\* ------------------------------------------- handlers, run to completion
\* the parts of the handlers that the atomic and the threaded form share

\* lines 90-95: the rooms the loop deletes, and what it emits, in dict order
RoomsOf(rooms, sid) == {r \in DOMAIN rooms : IsOccupant(rooms[r], sid)}

DisconnectEmits(rooms, sid) ==
    LET ks == KeysInOrder(RoomsOf(rooms, sid))
    IN  [i \in DOMAIN ks |->
            Msg(OpponentSid(rooms[ks[i]], sid), "opponent_disconnected", NoData)]

DisconnectRooms(rooms, sid) ==
    [r \in (DOMAIN rooms) \ RoomsOf(rooms, sid) |-> rooms[r]]

\* lines 106-113: the room handle_find_match stores (the arrival number of a
\* queue entry is history of the queue and is not kept in the room)
NewRoom(opponent, player_info) ==
    [player1 |-> [opponent EXCEPT !.seq = 0], player2 |-> player_info,
     started |-> FALSE]

AddRoom(rooms, room_id, room) ==
    [r \in (DOMAIN rooms) \cup {room_id} |->
        IF r = room_id THEN room ELSE rooms[r]]

\* lines 120-130: the two match_found messages, in the order emitted
MatchEmits(room_id, opponent, player_info) ==
    << Msg(opponent.sid, "match_found",
           [room_id |-> room_id, opponent |-> player_info.name,
            player_number |-> 2]),
       Msg(player_info.sid, "match_found",
           [room_id |-> room_id, opponent |-> opponent.name,
            player_number |-> 1]) >>

\* lines 74-78; the transport numbers the connections as they are made
handle_connect(c) ==
    /\ conn[c] = "new"
    /\ \A d \in SIDs : d < c => conn[d] # "new"
    /\ conn' = [conn EXCEPT ![c] = "up"]
    /\ emitted' = <<Msg(c, "connected", [sid |-> c])>>
    /\ last' = [op |-> "connect", sid |-> c, data |-> NoData]
    /\ UNCHANGED <<waiting_players, game_rooms, uuids, arrivals, scores, now,
                   threads>>

\* lines 80-95
handle_disconnect(c) ==
    /\ conn[c] = "up"
    /\ conn' = [conn EXCEPT ![c] = "down"]
    /\ waiting_players' = WithoutSid(waiting_players, c)
    /\ emitted' = DisconnectEmits(game_rooms, c)
    /\ game_rooms' = DisconnectRooms(game_rooms, c)
    /\ last' = [op |-> "disconnect", sid |-> c,
                data |-> [waiting |-> c \in QueuedSids(waiting_players),
                          rooms |-> Cardinality(RoomsOf(game_rooms, c))]]
    /\ UNCHANGED <<uuids, arrivals, scores, now, threads>>

find_match_queues(c, n) ==
    /\ conn[c] = "up"
    /\ arrivals < MaxArrivals
    /\ arrivals' = arrivals + 1
    /\ waiting_players' =
          Append(waiting_players, [PlayerInfo(c, n) EXCEPT !.seq = arrivals + 1])
    /\ emitted' = <<Msg(c, "waiting_for_opponent", NoData)>>
    /\ last' = [op |-> "find_match", sid |-> c, data |-> [name |-> n]]
    /\ UNCHANGED <<conn, game_rooms, uuids, scores, now, threads>>

\* lines 97-137
handle_find_match(c, n) ==
    /\ conn[c] = "up"
    /\ LET player_info == PlayerInfo(c, n)
       IN  IF waiting_players # <<>>
           THEN LET popped   == Pop0(waiting_players)
                    opponent == popped.item
                    room_id  == uuids + 1
                IN  /\ uuids < MaxRooms
                    /\ waiting_players' = popped.rest
                    /\ uuids' = room_id
                    /\ game_rooms' =
                          AddRoom(game_rooms, room_id,
                                  NewRoom(opponent, player_info))
                    /\ emitted' = MatchEmits(room_id, opponent, player_info)
                    /\ UNCHANGED arrivals
           ELSE /\ arrivals < MaxArrivals
                /\ arrivals' = arrivals + 1
                /\ waiting_players' =
                      Append(waiting_players,
                             [player_info EXCEPT !.seq = arrivals + 1])
                /\ emitted' = <<Msg(c, "waiting_for_opponent", NoData)>>
                /\ UNCHANGED <<game_rooms, uuids>>
    /\ last' = [op |-> "find_match", sid |-> c, data |-> [name |-> n]]
    /\ UNCHANGED <<conn, scores, now, threads>>

\* lines 139-144
handle_cancel_match(c) ==
    /\ conn[c] = "up"
    /\ waiting_players' = WithoutSid(waiting_players, c)
    /\ emitted' = <<Msg(c, "match_cancelled", NoData)>>
    /\ last' = [op |-> "cancel_match", sid |-> c,
                data |-> [waiting |-> c \in QueuedSids(waiting_players)]]
    /\ UNCHANGED <<conn, game_rooms, uuids, arrivals, scores, now, threads>>

EchoUpdate(rooms, c, room_id, payload) ==
    IF room_id \in DOMAIN rooms
    THEN <<Msg(OpponentSid(rooms[room_id], c), "opponent_update", payload)>>
    ELSE <<Msg(c, "opponent_update", payload)>>

\* lines 146-160
GameUpdateEmits(rooms, c, room_id, payload) ==
    IF room_id \in DOMAIN rooms
    THEN <<Msg(OpponentSid(rooms[room_id], c), "opponent_update", payload)>>
    ELSE <<>>

handle_game_update(c, room_id, payload) ==
    /\ conn[c] = "up"
    /\ emitted' = GameUpdateEmits(game_rooms, c, room_id, payload)
    /\ last' = [op |-> "game_update", sid |-> c,
                data |-> [room_id |-> room_id, payload |-> payload]]
    /\ UNCHANGED <<conn, waiting_players, game_rooms, uuids, arrivals, scores,
                   now, threads>>

\* lines 169-175
GameOverEmits(rooms, c, room_id) ==
    IF room_id \in DOMAIN rooms
    THEN << Msg(OpponentSid(rooms[room_id], c), "opponent_game_over",
                [winner |-> TRUE]),
            Msg(c, "opponent_game_over", [winner |-> FALSE]) >>
    ELSE <<>>

RecordCleaned(sc, name, score, t) ==
    LET score_entry == [name |-> name, score |-> score,
                        timestamp |-> isoformat(t)]
        kept == clean_old_scores(sc, t)
    IN  [daily  |-> Append(kept.daily, score_entry),
         weekly |-> Append(kept.weekly, score_entry)]

\* lines 178-187
RecordScore(sc, name, score, t) ==
    LET score_entry == [name |-> name, score |-> score,
                        timestamp |-> isoformat(t)]
    IN  [daily  |-> Append(sc.daily, score_entry),
         weekly |-> Append(sc.weekly, score_entry)]

game_over_closes(c, room_id, s, n) ==
    /\ conn[c] = "up"
    /\ scores' = RecordScore(scores, GetName(n), GetScore(s), now)
    /\ emitted' = GameOverEmits(game_rooms, c, room_id) \o
                  <<Msg(Broadcast, "rankings_update",
                        get_rankings(scores', now))>>
    /\ game_rooms' = [r \in (DOMAIN game_rooms) \ {room_id} |-> game_rooms[r]]
    /\ last' = [op |-> "game_over", sid |-> c,
                data |-> [room_id |-> room_id, score |-> s, name |-> n]]
    /\ UNCHANGED <<conn, waiting_players, uuids, arrivals, now, threads>>

\* lines 162-191
handle_game_over(c, room_id, s, n) ==
    /\ conn[c] = "up"
    /\ scores' = RecordScore(scores, GetName(n), GetScore(s), now)
    /\ emitted' = GameOverEmits(game_rooms, c, room_id) \o
                  <<Msg(Broadcast, "rankings_update",
                        get_rankings(scores', now))>>
    /\ last' = [op |-> "game_over", sid |-> c,
                data |-> [room_id |-> room_id, score |-> s, name |-> n]]
    /\ UNCHANGED <<conn, waiting_players, game_rooms, uuids, arrivals, now,
                   threads>>

\* lines 193-197
handle_get_rankings(c) ==
    /\ conn[c] = "up"
    /\ emitted' = <<Msg(c, "rankings_update", get_rankings(scores, now))>>
    /\ last' = [op |-> "get_rankings", sid |-> c, data |-> NoData]
    /\ UNCHANGED <<conn, waiting_players, game_rooms, uuids, arrivals, scores,
                   now, threads>>

\* the clock moves on to a later instant
Tick ==
    /\ \E t \in TimePoints : t > now /\ now' = t
    /\ emitted' = <<>>
    /\ last' = [op |-> "tick", sid |-> 0, data |-> NoData]
    /\ UNCHANGED <<conn, waiting_players, game_rooms, uuids, arrivals, scores,
                   threads>>

\* ------------------------------------------------------ specifications
Next ==
    \/ \E c \in SIDs : handle_connect(c)
    \/ \E c \in SIDs : handle_disconnect(c)
    \/ \E c \in SIDs : handle_find_match(c, NameOf(c))
    \/ \E c \in SIDs : handle_cancel_match(c)
    \/ \E c \in SIDs, r \in RoomIds \cup {NoRoom}, p \in Payloads :
          handle_game_update(c, r, p)

Spec == Init /\ [][Next]_vars

NextRank ==
    \/ \E c \in RankClients : handle_connect(c)
    \/ \E c \in RankClients, s \in RankScores :
          /\ Len(scores.daily) < MaxScores
          /\ handle_game_over(c, NoRoom, s, NoName)
    \/ \E c \in RankClients : handle_get_rankings(c)
    \/ Tick

SpecRank == Init /\ [][NextRank]_vars

\* matchmaking and the end of games together: game_over for rooms that exist
\* and for room ids that are no key of game_rooms
NextGame ==
    \/ \E c \in GameClients : handle_connect(c)
    \/ \E c \in GameClients : handle_disconnect(c)
    \/ \E c \in GameClients : handle_find_match(c, NameOf(c))
    \/ \E c \in GameClients, r \in RoomIds \cup {NoRoom}, s \in GameScores :
          /\ Len(scores.daily) < MaxGames
          /\ handle_game_over(c, r, s, NameOf(c))
    \/ Tick

SpecGame == Init /\ [][NextGame]_vars

\* ------------------------------------------------- handlers as threads
\* Each event is handled on a thread of its own; a thread may be preempted
\* between two accesses of waiting_players or game_rooms.  A thread is its
\* position (pc) and its locals: request.sid, player_info or the filtered
\* copy, and opponent.  emitted holds what the step just taken emitted.
Thread(pc, sid, info, copy, opponent) ==
    [pc |-> pc, sid |-> sid, info |-> info, copy |-> copy, opponent |-> opponent]

NoInfo == PlayerInfo(0, NoName)

Running == BagToSet(threads)

Pending(pc) ==
    LET S == {th \in Running : th.pc = pc}
    IN  IF S = {} THEN 0 ELSE BagCardinality([th \in S |-> threads[th]])

CanStart == BagCardinality(threads) < MaxThreads

Started(th) == threads (+) SetToBag({th})
Moved(th, next) == (threads (-) SetToBag({th})) (+) SetToBag({next})
Ended(th) == threads (-) SetToBag({th})

Step == [op |-> "step", sid |-> 0, data |-> NoData]

\* lines 100-104: player_info is built and `if waiting_players:` is evaluated
FmTest(c, n) ==
    /\ CanStart
    /\ conn[c] = "up"
    /\ IF waiting_players # <<>>
       THEN threads' = Started(Thread("fm_pop", c, PlayerInfo(c, n), <<>>, NoInfo))
       ELSE /\ arrivals + Pending("fm_append") < MaxArrivals
            /\ threads' =
                  Started(Thread("fm_append", c, PlayerInfo(c, n), <<>>, NoInfo))
    /\ emitted' = <<>>
    /\ last' = Step
    /\ UNCHANGED <<conn, waiting_players, game_rooms, uuids, arrivals, scores,
                   now>>

\* line 105: waiting_players.pop(0); IndexError ends the handler when another
\* thread has emptied the list since the test
FmPop(th) ==
    /\ th.pc = "fm_pop"
    /\ IF waiting_players = <<>>
       THEN /\ threads' = Ended(th)
            /\ UNCHANGED waiting_players
       ELSE LET popped == Pop0(waiting_players)
            IN  /\ uuids + Pending("fm_room") < MaxRooms
                /\ waiting_players' = popped.rest
                /\ threads' = Moved(th, [th EXCEPT !.pc = "fm_room",
                                                   !.opponent = popped.item])
    /\ emitted' = <<>>
    /\ last' = Step
    /\ UNCHANGED <<conn, game_rooms, uuids, arrivals, scores, now>>

\* lines 106-132: the room is stored and both players are told
FmRoom(th) ==
    /\ th.pc = "fm_room"
    /\ LET room_id == uuids + 1
       IN  /\ uuids' = room_id
           /\ game_rooms' = AddRoom(game_rooms, room_id,
                                    NewRoom(th.opponent, th.info))
           /\ emitted' = MatchEmits(room_id, th.opponent, th.info)
    /\ threads' = Ended(th)
    /\ last' = Step
    /\ UNCHANGED <<conn, waiting_players, arrivals, scores, now>>

\* lines 135-137
FmAppend(th) ==
    /\ th.pc = "fm_append"
    /\ arrivals' = arrivals + 1
    /\ waiting_players' =
          Append(waiting_players, [th.info EXCEPT !.seq = arrivals + 1])
    /\ emitted' = <<Msg(th.sid, "waiting_for_opponent", NoData)>>
    /\ threads' = Ended(th)
    /\ last' = Step
    /\ UNCHANGED <<conn, game_rooms, uuids, scores, now>>

\* line 143, right-hand side: the filtered copy is built
CmRead(c) ==
    /\ CanStart
    /\ conn[c] = "up"
    /\ threads' = Started(Thread("cm_rebind", c, NoInfo,
                                 WithoutSid(waiting_players, c), NoInfo))
    /\ emitted' = <<>>
    /\ last' = Step
    /\ UNCHANGED <<conn, waiting_players, game_rooms, uuids, arrivals, scores,
                   now>>

\* lines 143-144: the global is rebound to the copy, then match_cancelled
CmRebind(th) ==
    /\ th.pc = "cm_rebind"
    /\ waiting_players' = th.copy
    /\ emitted' = <<Msg(th.sid, "match_cancelled", NoData)>>
    /\ threads' = Ended(th)
    /\ last' = Step
    /\ UNCHANGED <<conn, game_rooms, uuids, arrivals, scores, now>>

\* line 87, right-hand side, on the thread the transport starts when c is gone
DcRead(c) ==
    /\ CanStart
    /\ conn[c] = "up"
    /\ conn' = [conn EXCEPT ![c] = "down"]
    /\ threads' = Started(Thread("dc_rebind", c, NoInfo,
                                 WithoutSid(waiting_players, c), NoInfo))
    /\ emitted' = <<>>
    /\ last' = Step
    /\ UNCHANGED <<waiting_players, game_rooms, uuids, arrivals, scores, now>>

\* line 87: the global is rebound to the copy
DcRebind(th) ==
    /\ th.pc = "dc_rebind"
    /\ waiting_players' = th.copy
    /\ threads' = Moved(th, [th EXCEPT !.pc = "dc_rooms", !.copy = <<>>])
    /\ emitted' = <<>>
    /\ last' = Step
    /\ UNCHANGED <<conn, game_rooms, uuids, arrivals, scores, now>>

\* lines 90-95: the loop over the rooms
DcRooms(th) ==
    /\ th.pc = "dc_rooms"
    /\ emitted' = DisconnectEmits(game_rooms, th.sid)
    /\ game_rooms' = DisconnectRooms(game_rooms, th.sid)
    /\ threads' = Ended(th)
    /\ last' = Step
    /\ UNCHANGED <<conn, waiting_players, uuids, arrivals, scores, now>>

NextConc ==
    \/ \E c \in ConcClients : handle_connect(c)
    \/ \E c \in ConcClients : FmTest(c, NameOf(c))
    \/ \E th \in Running : FmPop(th)
    \/ \E th \in Running : FmRoom(th)
    \/ \E th \in Running : FmAppend(th)
    \/ \E c \in ConcClients : CmRead(c)
    \/ \E th \in Running : CmRebind(th)
    \/ \E c \in ConcClients : DcRead(c)
    \/ \E th \in Running : DcRebind(th)
    \/ \E th \in Running : DcRooms(th)

SpecConc == Init /\ [][NextConc]_vars

\* ================================================================ claims
\* what the claims speak of, stated apart from the handlers' code
Occupants(room) == {room.player1.sid, room.player2.sid}

\* the occupant of room that is not sid
Other(room, sid) ==
    IF room.player1.sid = sid THEN room.player2.sid ELSE room.player1.sid

\* the messages of event ev that es delivers to sid
Delivered(es, sid, ev) ==
    Cardinality({i \in DOMAIN es : es[i].to = sid /\ es[i].event = ev})

\* C1 (SpecConc): when find_match takes a client off waiting_players (the pop
\* that precedes the creation of the room), no entry of the queue arrived
\* earlier than the one taken: clients are paired in the order they queued.
C1_Fifo ==
    [][\A th \in BagToSet(threads') :
          (th.pc = "fm_room" /\ CopiesIn(th, threads') > CopiesIn(th, threads))
          => \A i \in DOMAIN waiting_players :
                th.opponent.seq <= waiting_players[i].seq]_vars

\* a client was taken off the queue while a later arrival is still waiting
C1_Witness ==
    \E th \in Running :
        /\ th.pc = "fm_room"
        /\ waiting_players # <<>>
        /\ \A i \in DOMAIN waiting_players :
              /\ th.opponent.seq < waiting_players[i].seq
              /\ th.opponent.sid # waiting_players[i].sid

\* C2 (Spec): no connection id is an occupant of two rooms of game_rooms.
C2_OneRoomPerSid ==
    \A r1, r2 \in DOMAIN game_rooms :
        r1 # r2 => Occupants(game_rooms[r1]) \cap Occupants(game_rooms[r2]) = {}

\* C3 (Spec): no connection id is in waiting_players and an occupant of a room.
C3_WaitingOrPlaying ==
    \A r \in DOMAIN game_rooms :
        Occupants(game_rooms[r]) \cap QueuedSids(waiting_players) = {}

\* C4 (Spec): the two occupants of every room are distinct connection ids.
C4_DistinctOccupants ==
    \A r \in DOMAIN game_rooms :
        game_rooms[r].player1.sid # game_rooms[r].player2.sid

\* C5 (Spec): when find_match pairs the requester with the client popped from
\* the queue, both match_found messages carry the new room id; the popped
\* client is told player number 1 and the requester's name, the requester is
\* told player number 2 and the popped client's name.
C5_MatchFound ==
    (last.op = "find_match" /\ emitted # <<>> /\ emitted[1].event = "match_found")
    => LET room  == game_rooms[uuids]
           older == room.player1
           req   == room.player2
       IN  /\ Len(emitted) = 2
           /\ req.sid = last.sid
           /\ \A i \in 1..2 : /\ emitted[i].event = "match_found"
                              /\ emitted[i].data.room_id = uuids
           /\ \E i, j \in 1..2 :
                 /\ i # j
                 /\ emitted[i].to = older.sid
                 /\ emitted[i].data.player_number = 1
                 /\ emitted[i].data.opponent = req.name
                 /\ emitted[j].to = req.sid
                 /\ emitted[j].data.player_number = 2
                 /\ emitted[j].data.opponent = older.name

\* C6 (Spec): cancel_match from a connection id that is not in waiting_players
\* leaves waiting_players and game_rooms as they are and emits match_cancelled
\* to the requester and nothing else; a cancel_match that follows a
\* cancel_match of the same client changes nothing.
C6_CancelNoOp ==
    [][\A c \in SIDs :
          (last'.op = "cancel_match" /\ last'.sid = c)
          => /\ c \notin QueuedSids(waiting_players)
                => /\ waiting_players' = waiting_players
                   /\ game_rooms' = game_rooms
                   /\ emitted' = <<Msg(c, "match_cancelled", NoData)>>
             /\ (last.op = "cancel_match" /\ last.sid = c)
                => /\ waiting_players' = waiting_players
                   /\ game_rooms' = game_rooms
                   /\ emitted' = emitted]_vars

\* a client that was not waiting cancelled while another client waits
C6_Witness ==
    /\ last.op = "cancel_match"
    /\ ~last.data.waiting
    /\ waiting_players # <<>>
    /\ last.sid \notin QueuedSids(waiting_players)
    /\ emitted = <<Msg(last.sid, "match_cancelled", NoData)>>

C8_DisconnectNotifies ==
    [][\A c \in SIDs :
          (last'.op = "disconnect" /\ last'.sid = c)
          => /\ \A r \in DOMAIN game_rooms :
                   c \in Occupants(game_rooms[r])
                   => Delivered(emitted', Other(game_rooms[r], c),
                                "opponent_disconnected") = 1
             /\ Delivered(emitted', c, "opponent_disconnected") = 0
             /\ \A r \in DOMAIN game_rooms' :
                   c \notin Occupants(game_rooms'[r])]_vars

\* the entries of list s equal to e
Count(s, e) == Cardinality({i \in DOMAIN s : s[i] = e})

\* the instant an entry was recorded at lies within window of instant t
InWindow(e, t, window) == fromisoformat(e.timestamp) > t - window

\* ranking r is a correct top 10 of the entries of stored within window of t
TopTen(r, stored, t, window) ==
    /\ Len(r) <= 10
    /\ \A i \in 1..(Len(r) - 1) : r[i].score >= r[i + 1].score
    /\ \A i \in DOMAIN r : InWindow(r[i], t, window)
    /\ \A e \in Range(r) : Count(r, e) <= Count(stored, e)
    /\ \A e \in Range(stored) :
          (InWindow(e, t, window) /\ Count(r, e) < Count(stored, e))
          => /\ Len(r) = 10
             /\ \A k \in DOMAIN r : r[k].score >= e.score

\* C9 (SpecRank): the snapshot get_rankings returns (sent as rankings_update)
\* has at most 10 entries per list, each list in non-increasing score order,
\* daily with entries younger than a day only and weekly with entries younger
\* than 7 days only, and leaves out an entry of the window only for ten
\* entries of scores not lower.
C9_Snapshot ==
    \A i \in DOMAIN emitted :
        emitted[i].event = "rankings_update"
        => /\ TopTen(emitted[i].data.daily, scores.daily, now, 1)
           /\ TopTen(emitted[i].data.weekly, scores.weekly, now, 7)

\* a snapshot of more than ten entries of the week, of which the lowest is
\* left out, and fewer of the day, some stored entries being older
C9_Witness ==
    \E i \in DOMAIN emitted :
        /\ emitted[i].event = "rankings_update"
        /\ Len(emitted[i].data.weekly) = 10
        /\ Len(emitted[i].data.daily) \in 1..9
        /\ emitted[i].data.weekly[1].score > emitted[i].data.weekly[10].score
        /\ \E k \in DOMAIN scores.weekly :
              /\ InWindow(scores.weekly[k], now, 7)
              /\ Count(emitted[i].data.weekly, scores.weekly[k]) = 0
        /\ \E k \in DOMAIN scores.daily :
              ~InWindow(scores.daily[k], now, 1)

\* C10 (Spec): a game_update from an occupant of an existing room is relayed
\* as one opponent_update, to the other occupant, with the payload as sent;
\* the sender is sent nothing.
C10_Relay ==
    (/\ last.op = "game_update"
     /\ last.data.room_id \in DOMAIN game_rooms
     /\ last.sid \in Occupants(game_rooms[last.data.room_id]))
    => /\ emitted = <<Msg(Other(game_rooms[last.data.room_id], last.sid),
                          "opponent_update", last.data.payload)>>
       /\ \A i \in DOMAIN emitted : emitted[i].to # last.sid

\* the opponent_game_over messages with winner = w that es delivers to sid
Told(es, sid, w) ==
    Cardinality({i \in DOMAIN es : /\ es[i].to = sid
                                   /\ es[i].event = "opponent_game_over"
                                   /\ es[i].data.winner = w})

\* C11 (SpecGame): when an occupant of a room that exists reports game_over,
\* the other occupant is sent opponent_game_over with winner = true, the
\* reporter is sent opponent_game_over with winner = false, and the reporter
\* is not sent winner = true.
C11_WinnerLoser ==
    (/\ last.op = "game_over"
     /\ last.data.room_id \in DOMAIN game_rooms
     /\ last.sid \in Occupants(game_rooms[last.data.room_id]))
    => LET room == game_rooms[last.data.room_id]
       IN  /\ Told(emitted, Other(room, last.sid), TRUE) = 1
           /\ Told(emitted, last.sid, FALSE) = 1
           /\ Told(emitted, last.sid, TRUE) = 0

\* C12 (SpecGame): every game_over, for a room that exists or not, appends
\* one entry with the reported name, the reported score and the current time
\* to the daily and to the weekly list, the entries stored before staying as
\* they were, and then sends one rankings_update, to all clients, with the
\* snapshot of the lists as they now are.
C12_RecordAndBroadcast ==
    [][last'.op = "game_over"
       => \E e \in Range(scores'.daily) :
             /\ e.name = IF last'.data.name = NoName THEN "Anonymous"
                         ELSE last'.data.name
             /\ e.score = IF last'.data.score = NoScore THEN 0
                          ELSE last'.data.score
             /\ fromisoformat(e.timestamp) = now
             /\ scores'.daily = Append(scores.daily, e)
             /\ scores'.weekly = Append(scores.weekly, e)
             /\ Delivered(emitted', Broadcast, "rankings_update") = 1
             /\ \A i \in DOMAIN emitted' :
                   emitted'[i].event = "rankings_update" <=> i = Len(emitted')
             /\ LET sent == emitted'[Len(emitted')]
                IN  /\ sent.to = Broadcast
                    /\ TopTen(sent.data.daily, scores'.daily, now, 1)
                    /\ TopTen(sent.data.weekly, scores'.weekly, now, 7)]_vars

\* a game_over for a room that exists was recorded a day after an earlier
\* entry, which is still stored and is no longer in the daily ranking sent
C12_Witness ==
    /\ last.op = "game_over"
    /\ last.data.room_id \in DOMAIN game_rooms
    /\ Len(scores.daily) = 2
    /\ ~InWindow(scores.daily[1], now, 1)
    /\ InWindow(scores.weekly[1], now, 7)
    /\ Len(emitted) = 3
    /\ emitted[3].event = "rankings_update"
    /\ Len(emitted[3].data.daily) = 1
    /\ Len(emitted[3].data.weekly) = 2

\* C13 (SpecConc): whatever the interleaving of the disconnect of a client
\* with a find_match of another client that pairs with it (the client is the
\* one taken off the queue, player1 of the room), once the handlers have
\* completed no room of game_rooms has the disconnected client as occupant.
C13_NoDeadOccupant ==
    threads = EmptyBag
    => \A r \in DOMAIN game_rooms :
          game_rooms[r].player1.sid # game_rooms[r].player2.sid
          => conn[game_rooms[r].player1.sid] # "down"

\* C14 (SpecConc): in every reachable state a connection id is in at most one
\* entry of waiting_players.
C14_QueuedOnce ==
    \A i, j \in DOMAIN waiting_players :
        waiting_players[i].sid = waiting_players[j].sid => i = j

\* C15 (Spec): a game_update whose room id is no key of game_rooms, as after
\* the room was deleted by the opponent's disconnect, emits no message and
\* leaves waiting_players, game_rooms and the stored scores as they are.
C15_UpdateNoRoom ==
    [][(last'.op = "game_update" /\ last'.data.room_id \notin DOMAIN game_rooms)
       => /\ emitted' = <<>>
          /\ waiting_players' = waiting_players
          /\ game_rooms' = game_rooms
          /\ scores' = scores]_vars

\* a game_update named a room that was created and has been deleted, while
\* a client waits
C15_Witness ==
    /\ last.op = "game_update"
    /\ last.data.room_id \in 1..uuids
    /\ last.data.room_id \notin DOMAIN game_rooms
    /\ emitted = <<>>
    /\ waiting_players # <<>>

\* C16 (SpecGame): game_over leaves game_rooms and waiting_players as they
\* are; a game_over of an occupant that follows a game_over for the same room
\* again sends two opponent_game_over, winner = true to the other occupant
\* and winner = false to the reporter; and a room leaves game_rooms only in
\* the disconnect of one of its occupants.
C16_RoomOutlivesGameOver ==
    [][/\ last'.op = "game_over"
          => /\ game_rooms' = game_rooms
             /\ waiting_players' = waiting_players
       /\ (/\ last.op = "game_over"
           /\ last'.op = "game_over"
           /\ last'.data.room_id = last.data.room_id
           /\ last.data.room_id \in DOMAIN game_rooms
           /\ last'.sid \in Occupants(game_rooms[last.data.room_id]))
          => LET room == game_rooms[last.data.room_id]
             IN  /\ Told(emitted', Other(room, last'.sid), TRUE) = 1
                 /\ Told(emitted', last'.sid, FALSE) = 1
                 /\ \A o \in Occupants(room) :
                       Delivered(emitted', o, "opponent_game_over") >= 1
                 /\ Cardinality({i \in DOMAIN emitted' :
                       emitted'[i].event = "opponent_game_over"}) = 2
       /\ \A r \in DOMAIN game_rooms :
             r \notin DOMAIN game_rooms'
             => /\ last'.op = "disconnect"
                /\ last'.sid \in Occupants(game_rooms[r])]_vars

\* both occupants of the one room ever created have reported game_over, the
\* second report was answered like the first, and the room is still there
C16_Witness ==
    /\ last.op = "game_over"
    /\ uuids = 1
    /\ last.data.room_id \in DOMAIN game_rooms
    /\ game_rooms[1].player1.sid # game_rooms[1].player2.sid
    /\ last.sid \in Occupants(game_rooms[1])
    /\ Len(scores.daily) = 2
    /\ scores.daily[1].name # scores.daily[2].name
    /\ Told(emitted, Other(game_rooms[1], last.sid), TRUE) = 1
    /\ Told(emitted, last.sid, FALSE) = 1

\* the entries of list s that scored v, in their order
Scored(s, v) == SelectSeq(s, LAMBDA e : e.score = v)

\* the entries of list s recorded within window of instant t, in their order
Within(s, t, window) == SelectSeq(s, LAMBDA e : InWindow(e, t, window))

\* among the entries of one score, ranking r has the earliest recorded ones of
\* the window, in the order in which they were recorded
TiesInOrder(r, stored, t, window) ==
    \A v \in {r[i].score : i \in DOMAIN r} :
        LET ties == Scored(r, v)
            all  == Scored(Within(stored, t, window), v)
        IN  /\ Len(ties) <= Len(all)
            /\ ties = SubSeq(all, 1, Len(ties))

\* C17 (SpecRank): in each list of the snapshot get_rankings returns, the
\* entries of equal score are in the order in which they were recorded, and
\* of more than ten entries of the window that tie at the cut-off the ones
\* recorded first are kept.
C17_StableTies ==
    \A i \in DOMAIN emitted :
        emitted[i].event = "rankings_update"
        => /\ TiesInOrder(emitted[i].data.daily, scores.daily, now, 1)
           /\ TiesInOrder(emitted[i].data.weekly, scores.weekly, now, 7)

\* a weekly ranking of ten entries of one score, recorded at two instants,
\* that leaves out the eleventh, the one recorded last
C17_Witness ==
    \E i \in DOMAIN emitted :
        /\ emitted[i].event = "rankings_update"
        /\ Len(emitted[i].data.weekly) = 10
        /\ Len(Within(scores.weekly, now, 7)) = 11
        /\ \A k \in 1..11 : scores.weekly[k].score = scores.weekly[1].score
        /\ emitted[i].data.weekly[1].timestamp # emitted[i].data.weekly[10].timestamp
        /\ emitted[i].data.weekly = SubSeq(scores.weekly, 1, 10)

\* the threads that have left position pc, with connection id c, in this step
Left(pc, c) ==
    {th \in Running : /\ th.pc = pc
                      /\ th.sid = c
                      /\ CopiesIn(th, threads') < CopiesIn(th, threads)}

\* the find_match threads that hold an entry they have just taken off the queue
Took(e) ==
    {th \in BagToSet(threads') : /\ th.pc = "fm_room"
                                 /\ th.opponent = e
                                 /\ CopiesIn(th, threads') > CopiesIn(th, threads)}

\* C18 (SpecConc): however the steps of concurrently running handlers
\* interleave, no update of the queue is lost: an entry of waiting_players
\* (its client was sent waiting_for_opponent) leaves the queue only when its
\* client cancels or disconnects or when a find_match handler takes it, and
\* no entry is held by two find_match handlers.
C18_NoLostUpdate ==
    [][/\ \A i \in DOMAIN waiting_players :
             LET e == waiting_players[i]
             IN  e \notin Range(waiting_players')
                 => \/ Left("cm_rebind", e.sid) # {}
                    \/ Left("dc_rebind", e.sid) # {}
                    \/ Took(e) # {}
       /\ \A th \in BagToSet(threads') :
             th.pc = "fm_room"
             => /\ CopiesIn(th, threads') = 1
                /\ \A other \in BagToSet(threads') :
                      (other.pc = "fm_room" /\ other.opponent.seq = th.opponent.seq)
                      => other = th]_vars

\* C19 (Spec): when every handler runs to completion before the next starts,
\* waiting_players never holds more than one entry.
C19_AtMostOneWaiting == Len(waiting_players) <= 1

\* a client was queued by find_match after an earlier pair had been matched
C19_Witness ==
    /\ last.op = "find_match"
    /\ Len(waiting_players) = 1
    /\ waiting_players[1].sid = last.sid
    /\ emitted = <<Msg(last.sid, "waiting_for_opponent", NoData)>>
    /\ game_rooms # <<>>

\* message m is an opponent_update or an opponent_game_over with winner = true
ForOpponent(m) ==
    \/ m.event = "opponent_update"
    \/ m.event = "opponent_game_over" /\ m.data.winner

\* C20 (Spec): an opponent_update or an opponent_game_over with winner = true
\* is delivered only to an occupant of the room the event names and only when
\* the sender of the event is an occupant of that room: a game_update or
\* game_over sent by a connection that is no occupant of the room causes no
\* such message.
C20_OccupantsOnly ==
    \A i \in DOMAIN emitted :
        ForOpponent(emitted[i])
        => /\ last.op \in {"game_update", "game_over"}
           /\ last.data.room_id \in DOMAIN game_rooms
           /\ emitted[i].to \in Occupants(game_rooms[last.data.room_id])
           /\ last.sid \in Occupants(game_rooms[last.data.room_id])

====
